---- MODULE Spec2Model ----
(***************************************************************************)
(* Key-material and signing core of rcgen (src/rcgen/src/key_pair.rs).     *)
(*                                                                         *)
(* The cryptographic backends (ring, aws_lc_rs) are opaque: a private-key  *)
(* byte string is modelled by the set of backend constructors that accept  *)
(* it (`accepts`), the class pki_types assigns to it (`class`) and the     *)
(* identity of the key it holds (`seed`).  Backend constructors may be     *)
(* loose: one byte string may be accepted by several of them.              *)
(***************************************************************************)
EXTENDS Integers, Sequences, FiniteSets, TLC

VARIABLES backend, input, autoRes, explRes, genRes, spkiKey, spkiDer, spkiRes, signRes,
          sharedKey, constructed, threads

vars == <<backend, input, autoRes, explRes, genRes, spkiKey, spkiDer, spkiRes, signRes,
          sharedKey, constructed, threads>>
keyVars == <<input, autoRes, explRes, genRes>>
spkiVars == <<spkiKey, spkiDer, spkiRes>>
signVars == <<signRes>>
concVars == <<sharedKey, constructed, threads>>

\* ------------------------------------------------------------------ bounds
MaxSeed == 2
MaxAccepting == 2

\* ------------------------------------------------------- build configuration
Backends == {"ring", "aws_lc_rs"}

\* ------------------------------------------------------ algorithm catalogue
PKCS_ED25519 == "PKCS_ED25519"
PKCS_ECDSA_P256_SHA256 == "PKCS_ECDSA_P256_SHA256"
PKCS_ECDSA_P384_SHA384 == "PKCS_ECDSA_P384_SHA384"
PKCS_ECDSA_P521_SHA512 == "PKCS_ECDSA_P521_SHA512"
PKCS_RSA_SHA256 == "PKCS_RSA_SHA256"
PKCS_RSA_SHA384 == "PKCS_RSA_SHA384"
PKCS_RSA_SHA512 == "PKCS_RSA_SHA512"
PKCS_RSA_PSS_SHA256 == "PKCS_RSA_PSS_SHA256"

RsaAlgs == {PKCS_RSA_SHA256, PKCS_RSA_SHA384, PKCS_RSA_SHA512, PKCS_RSA_PSS_SHA256}
EcAlgs == {PKCS_ECDSA_P256_SHA256, PKCS_ECDSA_P384_SHA384, PKCS_ECDSA_P521_SHA512}

\* The handles a build offers: PKCS_ECDSA_P521_SHA512 exists only with aws_lc_rs.
Handles(b) ==
  IF b = "aws_lc_rs"
    THEN RsaAlgs \cup EcAlgs \cup {PKCS_ED25519}
    ELSE (RsaAlgs \cup EcAlgs \cup {PKCS_ED25519}) \ {PKCS_ECDSA_P521_SHA512}

\* The backend tag of a handle (SignatureAlgorithm.sign_alg).
sign_alg(alg) ==
  CASE alg = PKCS_ED25519 -> [family |-> "EdDsa", param |-> "ED25519"]
    [] alg = PKCS_ECDSA_P256_SHA256 -> [family |-> "EcDsa", param |-> "ECDSA_P256_SHA256_ASN1_SIGNING"]
    [] alg = PKCS_ECDSA_P384_SHA384 -> [family |-> "EcDsa", param |-> "ECDSA_P384_SHA384_ASN1_SIGNING"]
    [] alg = PKCS_ECDSA_P521_SHA512 -> [family |-> "EcDsa", param |-> "ECDSA_P521_SHA512_ASN1_SIGNING"]
    [] alg = PKCS_RSA_SHA256 -> [family |-> "Rsa", param |-> "RSA_PKCS1_SHA256"]
    [] alg = PKCS_RSA_SHA384 -> [family |-> "Rsa", param |-> "RSA_PKCS1_SHA384"]
    [] alg = PKCS_RSA_SHA512 -> [family |-> "Rsa", param |-> "RSA_PKCS1_SHA512"]
    [] alg = PKCS_RSA_PSS_SHA256 -> [family |-> "Rsa", param |-> "RSA_PSS_SHA256"]

\* ---------------------------------------------------- backend constructors
Ctor(fn, param) == [fn |-> fn, param |-> param]

Ed25519_from_pkcs8_maybe_unchecked == Ctor("Ed25519KeyPair::from_pkcs8_maybe_unchecked", "ED25519")
RsaKeyPair_from_pkcs8 == Ctor("RsaKeyPair::from_pkcs8", "RSA")
RsaKeyPair_from_der == Ctor("RsaKeyPair::from_der", "RSA")
ecdsa_from_pkcs8(curve) == Ctor("ecdsa_from_pkcs8", curve)
ecdsa_from_private_key_der(curve) == Ctor("ecdsa_from_private_key_der", curve)

ECDSA_P256 == "ECDSA_P256_SHA256_ASN1_SIGNING"
ECDSA_P384 == "ECDSA_P384_SHA384_ASN1_SIGNING"
ECDSA_P521 == "ECDSA_P521_SHA512_ASN1_SIGNING"

\* The constructors key_pair.rs can call in a build.
Ctors(b) ==
  IF b = "aws_lc_rs"
    THEN {Ed25519_from_pkcs8_maybe_unchecked, RsaKeyPair_from_pkcs8, RsaKeyPair_from_der}
         \cup {ecdsa_from_pkcs8(c) : c \in {ECDSA_P256, ECDSA_P384, ECDSA_P521}}
         \cup {ecdsa_from_private_key_der(c) : c \in {ECDSA_P256, ECDSA_P384, ECDSA_P521}}
    ELSE {Ed25519_from_pkcs8_maybe_unchecked, RsaKeyPair_from_pkcs8}
         \cup {ecdsa_from_pkcs8(c) : c \in {ECDSA_P256, ECDSA_P384}}

\* ------------------------------------------------------------ key material
Tags == {"Pkcs8", "Pkcs1", "Sec1"}
Classes == Tags \cup {"Invalid"}

\* A private-key byte string.
Der(class, accepts, seed, bits) ==
  [class |-> class, accepts |-> accepts, seed |-> seed, bits |-> bits]

\* RsaKeySize / KeySize: the modulus sizes of RSA keys.
RsaKeySizes == {2048, 3072, 4096}

\* A PrivateKeyDer: the container variant the caller (or pki_types) chose, and the bytes.
PrivateKeyDer(tag, der) == [tag |-> tag, der |-> der]

\* The byte strings a caller can hand in: any class, accepted by at most
\* MaxAccepting constructors.  They hold one key (seed 1); bytes an RSA
\* constructor accepts hold a 2048-bit modulus.
Ders(b) ==
  {Der(c, a, 1,
       IF a \cap {RsaKeyPair_from_pkcs8, RsaKeyPair_from_der} # {} THEN 2048 ELSE 0) :
     c \in Classes,
     a \in {x \in SUBSET Ctors(b) : Cardinality(x) <= MaxAccepting}}

\* The PrivateKeyDer values a caller can hand in: the container variant is the
\* one pki_types recognises in the bytes, or one the caller picked for bytes
\* pki_types cannot classify.
PrivateKeyDers(b) ==
  {PrivateKeyDer(t, d) : t \in Tags, d \in {x \in Ders(b) : x.class = "Invalid"}}
  \cup {PrivateKeyDer(d.class, d) : d \in {x \in Ders(b) : x.class # "Invalid"}}

\* Raw public key of the backend key object a constructor builds from bytes:
\* it is determined by the key type the constructor builds and the key held.
PublicKey(ctor, der) == [type |-> ctor.param, seed |-> der.seed]

\* A backend call: does the constructor accept the bytes?
Accepts(ctor, der) == ctor \in der.accepts

\* ----------------------------------------------------------------- results
NoCall == [status |-> "NoCall"]
NoInput == [tag |-> "None"]

Ok(kp, tried) == [status |-> "Ok", kp |-> kp, tried |-> tried]
Err(e, tried) == [status |-> "Err", err |-> e, tried |-> tried]
Panic(tried) == [status |-> "Panic", tried |-> tried]

KeyPairKind_Ec(ctor, der) == [variant |-> "Ec", param |-> ctor.param, pub |-> PublicKey(ctor, der)]
KeyPairKind_Ed(ctor, der) == [variant |-> "Ed", param |-> ctor.param, pub |-> PublicKey(ctor, der)]
KeyPairKind_Rsa(ctor, der, padding) ==
  [variant |-> "Rsa", param |-> padding, pub |-> PublicKey(ctor, der), bits |-> der.bits]

\* ring_like::rsa_key_pair_public_modulus_len: the modulus length, in bytes, of the key.
rsa_key_pair_public_modulus_len(kind) == kind.bits \div 8

KeyPair(kind, alg, serialized_der) == [kind |-> kind, alg |-> alg, serialized_der |-> serialized_der]

\* ------------------------------------------------------- error conversion
\* ExternalError::_err for ring_error::KeyRejected and ring_error::Unspecified.
KeyRejected_err == "RingKeyRejected"
Unspecified_err == "RingUnspecified"
\* The Error that ring_like::ecdsa_from_pkcs8 / ecdsa_from_private_key_der
\* return when the backend rejects the key (a wrapped backend rejection).
ecdsa_err == "RingKeyRejected"

CtorErr(ctor) ==
  IF ctor.fn \in {"ecdsa_from_pkcs8", "ecdsa_from_private_key_der"}
    THEN ecdsa_err ELSE KeyRejected_err

\* Mutant: the constructor's result is unwrapped instead of propagated with `?`.
Build_unwrap(ctor, kind, alg, der) ==
  IF Accepts(ctor, der)
    THEN Ok(KeyPair(kind, alg, der), <<ctor>>)
    ELSE Panic(<<ctor>>)

\* `kind = Variant(ctor(der)?)` followed by `Ok(KeyPair { kind, alg, serialized_der })`.
Build(ctor, kind, alg, der) ==
  IF Accepts(ctor, der)
    THEN Ok(KeyPair(kind, alg, der), <<ctor>>)
    ELSE Err(CtorErr(ctor), <<ctor>>)

\* ------------------------------------------- explicit-algorithm parse
\* A dispatch target: the constructor to call and the variant to build.
Target(ctor, variant, param) == [ctor |-> ctor, variant |-> variant, param |-> param]
NoTarget == [variant |-> "panic"]

\* Mutant: the PKCS_RSA_SHA384 branch passes the padding of the branch above it.
dispatch_pkcs8_copied_padding(b, alg) ==
  IF alg = PKCS_ED25519 THEN Target(Ed25519_from_pkcs8_maybe_unchecked, "Ed", "ED25519")
  ELSE IF alg = PKCS_ECDSA_P256_SHA256 THEN Target(ecdsa_from_pkcs8(ECDSA_P256), "Ec", ECDSA_P256)
  ELSE IF alg = PKCS_ECDSA_P384_SHA384 THEN Target(ecdsa_from_pkcs8(ECDSA_P384), "Ec", ECDSA_P384)
  ELSE IF alg = PKCS_RSA_SHA256 THEN Target(RsaKeyPair_from_pkcs8, "Rsa", "RSA_PKCS1_SHA256")
  ELSE IF alg = PKCS_RSA_SHA384 THEN Target(RsaKeyPair_from_pkcs8, "Rsa", "RSA_PKCS1_SHA256")
  ELSE IF alg = PKCS_RSA_SHA512 THEN Target(RsaKeyPair_from_pkcs8, "Rsa", "RSA_PKCS1_SHA512")
  ELSE IF alg = PKCS_RSA_PSS_SHA256 THEN Target(RsaKeyPair_from_pkcs8, "Rsa", "RSA_PSS_SHA256")
  ELSE IF b = "aws_lc_rs"
    THEN IF alg = PKCS_ECDSA_P521_SHA512
           THEN Target(ecdsa_from_pkcs8(ECDSA_P521), "Ec", ECDSA_P521)
           ELSE NoTarget
    ELSE NoTarget

\* The if / else-if chain of from_pkcs8_der_and_sign_algo.
dispatch_pkcs8(b, alg) ==
  IF alg = PKCS_ED25519 THEN Target(Ed25519_from_pkcs8_maybe_unchecked, "Ed", "ED25519")
  ELSE IF alg = PKCS_ECDSA_P256_SHA256 THEN Target(ecdsa_from_pkcs8(ECDSA_P256), "Ec", ECDSA_P256)
  ELSE IF alg = PKCS_ECDSA_P384_SHA384 THEN Target(ecdsa_from_pkcs8(ECDSA_P384), "Ec", ECDSA_P384)
  ELSE IF alg = PKCS_RSA_SHA256 THEN Target(RsaKeyPair_from_pkcs8, "Rsa", "RSA_PKCS1_SHA256")
  ELSE IF alg = PKCS_RSA_SHA384 THEN Target(RsaKeyPair_from_pkcs8, "Rsa", "RSA_PKCS1_SHA384")
  ELSE IF alg = PKCS_RSA_SHA512 THEN Target(RsaKeyPair_from_pkcs8, "Rsa", "RSA_PKCS1_SHA512")
  ELSE IF alg = PKCS_RSA_PSS_SHA256 THEN Target(RsaKeyPair_from_pkcs8, "Rsa", "RSA_PSS_SHA256")
  ELSE IF b = "aws_lc_rs"
    THEN IF alg = PKCS_ECDSA_P521_SHA512
           THEN Target(ecdsa_from_pkcs8(ECDSA_P521), "Ec", ECDSA_P521)
           ELSE NoTarget
    ELSE NoTarget

\* `rsa_key_pair_from`: RsaKeyPair::from_pkcs8 for a Pkcs8 container, else from_der.
rsa_key_pair_from(key) ==
  IF key.tag = "Pkcs8" THEN RsaKeyPair_from_pkcs8 ELSE RsaKeyPair_from_der

\* The if / else-if chain of from_der_and_sign_algo (aws_lc_rs).
dispatch_der(key, alg) ==
  IF alg = PKCS_ED25519 THEN Target(Ed25519_from_pkcs8_maybe_unchecked, "Ed", "ED25519")
  ELSE IF alg = PKCS_ECDSA_P256_SHA256 THEN Target(ecdsa_from_private_key_der(ECDSA_P256), "Ec", ECDSA_P256)
  ELSE IF alg = PKCS_ECDSA_P384_SHA384 THEN Target(ecdsa_from_private_key_der(ECDSA_P384), "Ec", ECDSA_P384)
  ELSE IF alg = PKCS_ECDSA_P521_SHA512 THEN Target(ecdsa_from_private_key_der(ECDSA_P521), "Ec", ECDSA_P521)
  ELSE IF alg = PKCS_RSA_SHA256 THEN Target(rsa_key_pair_from(key), "Rsa", "RSA_PKCS1_SHA256")
  ELSE IF alg = PKCS_RSA_SHA384 THEN Target(rsa_key_pair_from(key), "Rsa", "RSA_PKCS1_SHA384")
  ELSE IF alg = PKCS_RSA_SHA512 THEN Target(rsa_key_pair_from(key), "Rsa", "RSA_PKCS1_SHA512")
  ELSE IF alg = PKCS_RSA_PSS_SHA256 THEN Target(rsa_key_pair_from(key), "Rsa", "RSA_PSS_SHA256")
  ELSE NoTarget

\* The KeyPairKind a dispatch target builds from the bytes.
KindOf(t, der) ==
  CASE t.variant = "Ed" -> KeyPairKind_Ed(t.ctor, der)
    [] t.variant = "Ec" -> KeyPairKind_Ec(t.ctor, der)
    [] t.variant = "Rsa" -> KeyPairKind_Rsa(t.ctor, der, t.param)

\* Mutant: the final else of the chain returns an error value.
from_pkcs8_der_and_sign_algo_unknown_is_err(b, pkcs8, alg) ==
  LET serialized_der == pkcs8
      t == dispatch_pkcs8(b, alg)
  IN IF t = NoTarget
       THEN Err("UnsupportedSignatureAlgorithm", <<>>)
       ELSE Build(t.ctor, KindOf(t, serialized_der), alg, serialized_der)

from_pkcs8_der_and_sign_algo(b, pkcs8, alg) ==
  LET serialized_der == pkcs8
      t == dispatch_pkcs8(b, alg)
  IN IF t = NoTarget
       THEN Panic(<<>>)
       ELSE Build(t.ctor, KindOf(t, serialized_der), alg, serialized_der)

from_der_and_sign_algo(b, key, alg) ==
  IF b = "ring"
    THEN IF key.tag = "Pkcs8"
           THEN from_pkcs8_der_and_sign_algo(b, key.der, alg)
           ELSE Err("CouldNotParseKeyPair", <<>>)
    ELSE LET serialized_der == key.der
             t == dispatch_der(key, alg)
         IN IF t = NoTarget
              THEN Panic(<<>>)
              ELSE Build(t.ctor, KindOf(t, serialized_der), alg, serialized_der)

\* --------------------------------------------------- auto-detecting parse
Cand(alg, t) == [alg |-> alg, t |-> t]
CandEd == Cand(PKCS_ED25519, Target(Ed25519_from_pkcs8_maybe_unchecked, "Ed", "ED25519"))
CandEcPkcs8(alg, curve) == Cand(alg, Target(ecdsa_from_pkcs8(curve), "Ec", curve))
CandEcDer(alg, curve) == Cand(alg, Target(ecdsa_from_private_key_der(curve), "Ec", curve))
CandRsa(ctor) == Cand(PKCS_RSA_SHA256, Target(ctor, "Rsa", "RSA_PKCS1_SHA256"))

\* Mutant: the ECDSA P-256 candidate is tried before the Ed25519 candidate.
auto_candidates_p256_first(b, key) ==
  IF b = "ring"
    THEN << CandEcPkcs8(PKCS_ECDSA_P256_SHA256, ECDSA_P256),
            CandEd,
            CandEcPkcs8(PKCS_ECDSA_P384_SHA384, ECDSA_P384),
            CandRsa(RsaKeyPair_from_pkcs8) >>
    ELSE << CandEcDer(PKCS_ECDSA_P256_SHA256, ECDSA_P256),
            CandEd,
            CandEcDer(PKCS_ECDSA_P384_SHA384, ECDSA_P384),
            CandEcDer(PKCS_ECDSA_P521_SHA512, ECDSA_P521),
            CandRsa(rsa_key_pair_from(key)) >>

\* The candidates of TryFrom<&PrivateKeyDer>, in the order the chain tries them.
auto_candidates(b, key) ==
  IF b = "ring"
    THEN << CandEd,
            CandEcPkcs8(PKCS_ECDSA_P256_SHA256, ECDSA_P256),
            CandEcPkcs8(PKCS_ECDSA_P384_SHA384, ECDSA_P384),
            CandRsa(RsaKeyPair_from_pkcs8) >>
    ELSE << CandEd,
            CandEcDer(PKCS_ECDSA_P256_SHA256, ECDSA_P256),
            CandEcDer(PKCS_ECDSA_P384_SHA384, ECDSA_P384),
            CandEcDer(PKCS_ECDSA_P521_SHA512, ECDSA_P521),
            CandRsa(rsa_key_pair_from(key)) >>

\* `if let Ok(..) = ctor(key) { .. } else if let Ok(..) = .. else { return Err(..) }`:
\* candidate i is tried only after candidates 1..i-1 were rejected.
RECURSIVE first_ok(_, _, _, _)
first_ok(cands, der, i, tried) ==
  IF i > Len(cands)
    THEN Err("CouldNotParseKeyPair", tried)
    ELSE LET c == cands[i]
             now == Append(tried, c.t.ctor)
         IN IF Accepts(c.t.ctor, der)
              THEN Ok(KeyPair(KindOf(c.t, der), c.alg, der), now)
              ELSE first_ok(cands, der, i + 1, now)

\* Mutant: the chain gives up after its first candidate.
try_from_first_candidate_only(b, key) ==
  IF b = "ring" /\ key.tag # "Pkcs8"
    THEN Err("CouldNotParseKeyPair", <<>>)
    ELSE first_ok(SubSeq(auto_candidates(b, key), 1, 1), key.der, 1, <<>>)

\* Mutant: the PKCS#8-only check of the ring branch is applied on every backend.
try_from_pkcs8_only(b, key) ==
  IF key.tag # "Pkcs8"
    THEN Err("CouldNotParseKeyPair", <<>>)
    ELSE first_ok(auto_candidates(b, key), key.der, 1, <<>>)

\* impl TryFrom<&PrivateKeyDer<'_>> for KeyPair
try_from(b, key) ==
  IF b = "ring" /\ key.tag # "Pkcs8"
    THEN Err("CouldNotParseKeyPair", <<>>)
    ELSE first_ok(auto_candidates(b, key), key.der, 1, <<>>)

\* PrivateKeyDer::try_from(&[u8]): the container pki_types recognises in the bytes.
PrivateKeyDer_try_from(der) ==
  IF der.class = "Invalid" THEN NoInput ELSE PrivateKeyDer(der.class, der)

\* impl TryFrom<&[u8]> for KeyPair (and TryFrom<Vec<u8>>, TryFrom<&PrivatePkcs8KeyDer>)
try_from_bytes(b, der) ==
  IF PrivateKeyDer_try_from(der) = NoInput
    THEN Err("CouldNotParseKeyPair", <<>>)
    ELSE try_from(b, PrivateKeyDer_try_from(der))

\* -------------------------------------------------------------------- PEM
\* A PEM string: malformed, or a label and the DER contents it frames.
BadPem == [label |-> "malformed"]
Pem(label, contents) == [label |-> label, contents |-> contents]

from_pem(b, pem_str) ==
  IF pem_str = BadPem
    THEN Err("PemError", <<>>)
    ELSE try_from_bytes(b, pem_str.contents)

from_pkcs8_pem_and_sign_algo(b, pem_str, alg) ==
  IF pem_str = BadPem
    THEN Err("PemError", <<>>)
    ELSE from_pkcs8_der_and_sign_algo(b, pem_str.contents, alg)

from_pem_and_sign_algo(b, pem_str, alg) ==
  IF pem_str = BadPem
    THEN Err("PemError", <<>>)
    ELSE IF PrivateKeyDer_try_from(pem_str.contents) = NoInput
           THEN Err("CouldNotParseKeyPair", <<>>)
           ELSE from_der_and_sign_algo(b, PrivateKeyDer_try_from(pem_str.contents), alg)

\* ------------------------------------------------------------- generation
Ed25519_from_pkcs8 == Ctor("Ed25519KeyPair::from_pkcs8", "ED25519")

\* EcdsaKeyPair::generate_pkcs8 / Ed25519KeyPair::generate_pkcs8: the PKCS#8
\* document of a fresh key; the backend's own constructors for that key type
\* accept it.
generate_pkcs8(b, param, seed) ==
  Der("Pkcs8",
      IF param = "ED25519"
        THEN {Ed25519_from_pkcs8, Ed25519_from_pkcs8_maybe_unchecked}
        ELSE {ecdsa_from_pkcs8(param)}
             \cup (IF b = "aws_lc_rs" THEN {ecdsa_from_private_key_der(param)} ELSE {}),
      seed, 0)

\* Mutant: the Rsa variant always stores the PKCS1-SHA256 padding.
generate_rsa_inner_fixed_padding(alg, padding, key_size, seed, backendOk) ==
  IF ~backendOk
    THEN Err(Unspecified_err, <<>>)
    ELSE LET key_pair_serialized == Der("Pkcs8", {RsaKeyPair_from_pkcs8}, seed, key_size)
         IN Ok(KeyPair(KeyPairKind_Rsa(RsaKeyPair_from_pkcs8, key_pair_serialized,
                                       "RSA_PKCS1_SHA256"),
                       alg, key_pair_serialized), <<>>)

\* RsaKeyPair::generate(key_size) then key_pair.as_der(): the key and its PKCS#8 document.
generate_rsa_inner(alg, padding, key_size, seed, backendOk) ==
  IF ~backendOk
    THEN Err(Unspecified_err, <<>>)
    ELSE LET key_pair_serialized == Der("Pkcs8", {RsaKeyPair_from_pkcs8}, seed, key_size)
         IN Ok(KeyPair(KeyPairKind_Rsa(RsaKeyPair_from_pkcs8, key_pair_serialized, padding),
                       alg, key_pair_serialized), <<>>)

\* `ctor(key_pair_doc).unwrap()`
Unwrap(ctor, kind, alg, der) ==
  IF Accepts(ctor, der) THEN Ok(KeyPair(kind, alg, der), <<>>) ELSE Panic(<<>>)

\* Mutant: the RSA arm of the aws_lc_rs build is compiled into every build.
generate_for_rsa_on_every_backend(b, alg, seed, backendOk) ==
  LET sa == sign_alg(alg) IN
  CASE sa.family = "EcDsa" ->
         IF ~backendOk
           THEN Err(Unspecified_err, <<>>)
           ELSE LET key_pair_doc == generate_pkcs8(b, sa.param, seed)
                    ctor == ecdsa_from_pkcs8(sa.param)
                IN Unwrap(ctor, KeyPairKind_Ec(ctor, key_pair_doc), alg, key_pair_doc)
    [] sa.family = "EdDsa" ->
         IF ~backendOk
           THEN Err(Unspecified_err, <<>>)
           ELSE LET key_pair_doc == generate_pkcs8(b, sa.param, seed)
                IN Unwrap(Ed25519_from_pkcs8,
                          KeyPairKind_Ed(Ed25519_from_pkcs8, key_pair_doc), alg, key_pair_doc)
    [] sa.family = "Rsa" ->
         generate_rsa_inner(alg, sa.param, 2048, seed, backendOk)

generate_for(b, alg, seed, backendOk) ==
  LET sa == sign_alg(alg) IN
  CASE sa.family = "EcDsa" ->
         IF ~backendOk
           THEN Err(Unspecified_err, <<>>)
           ELSE LET key_pair_doc == generate_pkcs8(b, sa.param, seed)
                    ctor == ecdsa_from_pkcs8(sa.param)
                IN Unwrap(ctor, KeyPairKind_Ec(ctor, key_pair_doc), alg, key_pair_doc)
    [] sa.family = "EdDsa" ->
         IF ~backendOk
           THEN Err(Unspecified_err, <<>>)
           ELSE LET key_pair_doc == generate_pkcs8(b, sa.param, seed)
                IN Unwrap(Ed25519_from_pkcs8,
                          KeyPairKind_Ed(Ed25519_from_pkcs8, key_pair_doc), alg, key_pair_doc)
    [] sa.family = "Rsa" ->
         IF b = "aws_lc_rs"
           THEN generate_rsa_inner(alg, sa.param, 2048, seed, backendOk)
           ELSE Err("KeyGenerationUnavailable", <<>>)

generate_rsa_for(alg, key_size, seed, backendOk) ==
  LET sa == sign_alg(alg) IN
  IF sa.family = "Rsa"
    THEN generate_rsa_inner(alg, sa.param, key_size, seed, backendOk)
    ELSE Err("KeyGenerationUnavailable", <<>>)

generate(b, seed, backendOk) == generate_for(b, PKCS_ECDSA_P256_SHA256, seed, backendOk)

\* ------------------------------------------------------------------ export
algorithm(kp) == kp.alg
der_bytes(kp) == kp.kind.pub
public_key_raw(kp) == der_bytes(kp)
\* Mutant: the export returns a truncated copy, which no constructor accepts.
serialize_der_truncated(kp) == [kp.serialized_der EXCEPT !.accepts = {}]
serialize_der(kp) == kp.serialized_der
serialize_pem(kp) == Pem("PRIVATE KEY", serialize_der(kp))

\* ------------------------------------------------------------ callers
\* The callers (threads) that hold a reference to one KeyPair, and where each
\* of them is: not in a call, inside sign, or back from a call with its result.
MaxThreads == 2
Threads == 1..MaxThreads

Idle == [pc |-> "idle"]
InSign(msg, system_random) == [pc |-> "sign", msg |-> msg, system_random |-> system_random]
Returned(op, arg, ret) == [pc |-> "returned", op |-> op, arg |-> arg, ret |-> ret]

\* ----------------------------------------------------------------- actions
Call(entry, alg, key, r) == [entry |-> entry, alg |-> alg, key |-> key] @@ r

Init ==
  /\ backend \in Backends
  /\ input = NoInput
  /\ autoRes = NoCall
  /\ explRes = NoCall
  /\ genRes = NoCall
  /\ spkiKey = NoCall
  /\ spkiDer = <<>>
  /\ spkiRes = NoCall
  /\ signRes = NoCall
  /\ sharedKey = NoCall
  /\ constructed = NoCall
  /\ threads = [t \in Threads |-> Idle]

\* The caller obtains private-key material from outside.  A run follows one
\* piece of key material: it is either handed in or generated, once.
ChooseInput ==
  /\ input = NoInput
  /\ genRes = NoCall
  /\ \E key \in PrivateKeyDers(backend) : input' = key
  /\ autoRes' = NoCall
  /\ explRes' = NoCall
  /\ genRes' = NoCall
  /\ UNCHANGED <<backend, spkiVars, signVars, concVars>>

CallTryFrom ==
  /\ input # NoInput
  /\ autoRes' = Call("try_from", "-", input, try_from(backend, input))
  /\ UNCHANGED <<backend, input, explRes, genRes, spkiVars, signVars, concVars>>

CallTryFromBytes ==
  /\ input # NoInput
  /\ autoRes' = Call("try_from_bytes", "-", PrivateKeyDer_try_from(input.der),
                     try_from_bytes(backend, input.der))
  /\ UNCHANGED <<backend, input, explRes, genRes, spkiVars, signVars, concVars>>

CallFromPkcs8DerAndSignAlgo ==
  /\ input # NoInput
  /\ \E alg \in Handles(backend) :
       explRes' = Call("from_pkcs8_der_and_sign_algo", alg, input,
                       from_pkcs8_der_and_sign_algo(backend, input.der, alg))
  /\ UNCHANGED <<backend, input, autoRes, genRes, spkiVars, signVars, concVars>>

CallFromDerAndSignAlgo ==
  /\ input # NoInput
  /\ \E alg \in Handles(backend) :
       explRes' = Call("from_der_and_sign_algo", alg, input,
                       from_der_and_sign_algo(backend, input, alg))
  /\ UNCHANGED <<backend, input, autoRes, genRes, spkiVars, signVars, concVars>>

\* The handles a caller can pass that the dispatch chains of a build do not
\* list: a handle the catalogue gained after the chains were written, and on
\* ring the P-521 handle.
PKCS_UNLISTED == "PKCS_UNLISTED"
UnlistedHandles(b) ==
  {PKCS_UNLISTED} \cup (IF b = "ring" THEN {PKCS_ECDSA_P521_SHA512} ELSE {})

CallFromPkcs8DerAndSignAlgoUnlisted ==
  /\ input # NoInput
  /\ \E alg \in UnlistedHandles(backend) :
       explRes' = Call("from_pkcs8_der_and_sign_algo", alg, input,
                       from_pkcs8_der_and_sign_algo(backend, input.der, alg))
  /\ UNCHANGED <<backend, input, autoRes, genRes, spkiVars, signVars, concVars>>

CallFromDerAndSignAlgoUnlisted ==
  /\ input # NoInput
  /\ \E alg \in UnlistedHandles(backend) :
       explRes' = Call("from_der_and_sign_algo", alg, input,
                       from_der_and_sign_algo(backend, input, alg))
  /\ UNCHANGED <<backend, input, autoRes, genRes, spkiVars, signVars, concVars>>

\* The PEM strings a caller can hand in around the input bytes.
PemLabel(key) ==
  CASE key.tag = "Pkcs1" -> "RSA PRIVATE KEY"
    [] key.tag = "Sec1" -> "EC PRIVATE KEY"
    [] OTHER -> "PRIVATE KEY"

GoodPem(key) == Pem(PemLabel(key), key.der)
PemStrs(key) == {BadPem, GoodPem(key)}

CallFromPem ==
  /\ input # NoInput
  /\ \E pem_str \in PemStrs(input) :
       autoRes' = Call("from_pem", "-", pem_str, from_pem(backend, pem_str))
  /\ UNCHANGED <<backend, input, explRes, genRes, spkiVars, signVars, concVars>>

CallFromPkcs8PemAndSignAlgo ==
  /\ input # NoInput
  /\ \E alg \in Handles(backend) :
       explRes' = Call("from_pkcs8_pem_and_sign_algo", alg, GoodPem(input),
                       from_pkcs8_pem_and_sign_algo(backend, GoodPem(input), alg))
  /\ UNCHANGED <<backend, input, autoRes, genRes, spkiVars, signVars, concVars>>

CallFromPemAndSignAlgo ==
  /\ input # NoInput
  /\ \E alg \in Handles(backend) :
       explRes' = Call("from_pem_and_sign_algo", alg, GoodPem(input),
                       from_pem_and_sign_algo(backend, GoodPem(input), alg))
  /\ UNCHANGED <<backend, input, autoRes, genRes, spkiVars, signVars, concVars>>

CallGenerate ==
  /\ input = NoInput
  /\ genRes = NoCall
  /\ \E seed \in 1..MaxSeed, backendOk \in BOOLEAN :
       genRes' = [backendOk |-> backendOk]
                 @@ Call("generate", PKCS_ECDSA_P256_SHA256, NoInput,
                         generate(backend, seed, backendOk))
  /\ input' = NoInput
  /\ autoRes' = NoCall
  /\ explRes' = NoCall
  /\ UNCHANGED <<backend, spkiVars, signVars, concVars>>

CallGenerateFor ==
  /\ input = NoInput
  /\ genRes = NoCall
  /\ \E alg \in Handles(backend), seed \in 1..MaxSeed, backendOk \in BOOLEAN :
       genRes' = [backendOk |-> backendOk]
                 @@ Call("generate_for", alg, NoInput,
                         generate_for(backend, alg, seed, backendOk))
  /\ input' = NoInput
  /\ autoRes' = NoCall
  /\ explRes' = NoCall
  /\ UNCHANGED <<backend, spkiVars, signVars, concVars>>

CallGenerateRsaFor ==
  /\ backend = "aws_lc_rs"
  /\ input = NoInput
  /\ genRes = NoCall
  /\ \E alg \in Handles(backend), key_size \in RsaKeySizes,
        seed \in 1..MaxSeed, backendOk \in BOOLEAN :
       genRes' = [backendOk |-> backendOk, key_size |-> key_size]
                 @@ Call("generate_rsa_for", alg, NoInput,
                         generate_rsa_for(alg, key_size, seed, backendOk))
  /\ input' = NoInput
  /\ autoRes' = NoCall
  /\ explRes' = NoCall
  /\ UNCHANGED <<backend, spkiVars, signVars, concVars>>

\* The caller exports the generated key and uses the bytes as the next input.
CallSerializeDer ==
  /\ genRes.status = "Ok"
  /\ input = NoInput
  /\ input' = PrivateKeyDer("Pkcs8", serialize_der(genRes.kp))
  /\ UNCHANGED <<backend, autoRes, explRes, genRes, spkiVars, signVars, concVars>>

Next ==
  \/ ChooseInput
  \/ CallTryFrom
  \/ CallTryFromBytes
  \/ CallFromPkcs8DerAndSignAlgo
  \/ CallFromDerAndSignAlgo
  \/ CallFromPkcs8DerAndSignAlgoUnlisted
  \/ CallFromDerAndSignAlgoUnlisted
  \/ CallFromPem
  \/ CallFromPkcs8PemAndSignAlgo
  \/ CallFromPemAndSignAlgo
  \/ CallGenerate
  \/ CallGenerateFor
  \/ CallGenerateRsaFor
  \/ CallSerializeDer

Spec == Init /\ [][Next]_vars

\* ==================================================== SubjectPublicKeyInfo
\* DER values, as yasna writes and x509-parser reads them.  A byte string of
\* DER is the sequence of the values it holds, one after the other.
DerSeq(items) == [tag |-> "SEQUENCE", items |-> items]
DerOid(oid) == [tag |-> "OID", oid |-> oid]
DerNull == [tag |-> "NULL"]
DerBitString(bytes, unused) == [tag |-> "BIT STRING", unused |-> unused, bytes |-> bytes]
DerJunk == [tag |-> "JUNK"]

OID_RSA_ENCRYPTION == "1.2.840.113549.1.1.1"
OID_RSASSA_PSS == "1.2.840.113549.1.1.10"
OID_EC_PUBLIC_KEY == "1.2.840.10045.2.1"
OID_EC_SECP_256_R1 == "1.2.840.10045.3.1.7"
OID_EC_SECP_384_R1 == "1.3.132.0.34"
OID_EC_SECP_521_R1 == "1.3.132.0.35"
OID_ED25519 == "1.3.101.112"

\* SignatureAlgorithm::write_oids_sign_alg: the AlgorithmIdentifier of the key
\* in a SubjectPublicKeyInfo (RFC 5280 / RFC 3279 / RFC 5480 / RFC 8410): every
\* PKCS#1 RSA algorithm names the key rsaEncryption with NULL parameters.
write_oids_sign_alg(alg) ==
  CASE alg = PKCS_ED25519 -> DerSeq(<<DerOid(OID_ED25519)>>)
    [] alg = PKCS_ECDSA_P256_SHA256 -> DerSeq(<<DerOid(OID_EC_PUBLIC_KEY), DerOid(OID_EC_SECP_256_R1)>>)
    [] alg = PKCS_ECDSA_P384_SHA384 -> DerSeq(<<DerOid(OID_EC_PUBLIC_KEY), DerOid(OID_EC_SECP_384_R1)>>)
    [] alg = PKCS_ECDSA_P521_SHA512 -> DerSeq(<<DerOid(OID_EC_PUBLIC_KEY), DerOid(OID_EC_SECP_521_R1)>>)
    [] alg \in {PKCS_RSA_SHA256, PKCS_RSA_SHA384, PKCS_RSA_SHA512} ->
         DerSeq(<<DerOid(OID_RSA_ENCRYPTION), DerNull>>)
    [] alg = PKCS_RSA_PSS_SHA256 -> DerSeq(<<DerOid(OID_RSASSA_PSS), DerNull>>)

\* SignatureAlgorithm::write_alg_ident: the AlgorithmIdentifier of the signature.
write_alg_ident(alg) ==
  CASE alg = PKCS_ED25519 -> DerSeq(<<DerOid(OID_ED25519)>>)
    [] alg = PKCS_ECDSA_P256_SHA256 -> DerSeq(<<DerOid("1.2.840.10045.4.3.2")>>)
    [] alg = PKCS_ECDSA_P384_SHA384 -> DerSeq(<<DerOid("1.2.840.10045.4.3.3")>>)
    [] alg = PKCS_ECDSA_P521_SHA512 -> DerSeq(<<DerOid("1.2.840.10045.4.3.4")>>)
    [] alg = PKCS_RSA_SHA256 -> DerSeq(<<DerOid("1.2.840.113549.1.1.11"), DerNull>>)
    [] alg = PKCS_RSA_SHA384 -> DerSeq(<<DerOid("1.2.840.113549.1.1.12"), DerNull>>)
    [] alg = PKCS_RSA_SHA512 -> DerSeq(<<DerOid("1.2.840.113549.1.1.13"), DerNull>>)
    [] alg = PKCS_RSA_PSS_SHA256 -> DerSeq(<<DerOid(OID_RSASSA_PSS), DerSeq(<<DerOid("2.16.840.1.101.3.4.2.1")>>)>>)

\* SignatureAlgorithm::iter: the enumeration of the catalogue, in its order.
SignatureAlgorithm_iter(b) ==
  IF b = "aws_lc_rs"
    THEN <<PKCS_RSA_SHA256, PKCS_RSA_SHA384, PKCS_RSA_SHA512, PKCS_RSA_PSS_SHA256,
           PKCS_ECDSA_P256_SHA256, PKCS_ECDSA_P384_SHA384, PKCS_ECDSA_P521_SHA512,
           PKCS_ED25519>>
    ELSE <<PKCS_RSA_SHA256, PKCS_RSA_SHA384, PKCS_RSA_SHA512, PKCS_RSA_PSS_SHA256,
           PKCS_ECDSA_P256_SHA256, PKCS_ECDSA_P384_SHA384, PKCS_ED25519>>

\* The length in bytes of a raw public key.
PublicKeyLen(pub, bits) ==
  CASE pub.type = "ED25519" -> 32
    [] pub.type = ECDSA_P256 -> 65
    [] pub.type = ECDSA_P384 -> 97
    [] pub.type = ECDSA_P521 -> 133
    [] pub.type = "RSA" -> (bits \div 8) + 14

\* DERWriter::write_bitvec_bytes(bytes, bit_len): a BIT STRING of bit_len bits.
write_bitvec_bytes(bytes, byte_len, bit_len) ==
  DerBitString(bytes, (byte_len * 8) - bit_len)

\* Mutant: the key is labelled with the AlgorithmIdentifier of the signature.
serialize_public_key_der_sig_ident(alg, pk, pk_len) ==
  DerSeq(<< write_alg_ident(alg), write_bitvec_bytes(pk, pk_len, pk_len * 8) >>)

\* serialize_public_key_der(key, writer), with key.algorithm(), key.der_bytes() and its length.
serialize_public_key_der(alg, pk, pk_len) ==
  DerSeq(<< write_oids_sign_alg(alg), write_bitvec_bytes(pk, pk_len, pk_len * 8) >>)

KeyLen(kp) ==
  PublicKeyLen(kp.kind.pub, IF kp.kind.variant = "Rsa" THEN kp.kind.bits ELSE 0)

\* PublicKeyData::subject_public_key_info for a KeyPair
subject_public_key_info(kp) ==
  << serialize_public_key_der(algorithm(kp), der_bytes(kp), KeyLen(kp)) >>

\* x509_parser AlgorithmIdentifier::from_der: an OID and optional parameters.
NoParams == [tag |-> "ABSENT"]
NoParse == [tag |-> "error"]
AlgorithmIdentifier_from_der(bytes) ==
  IF /\ Len(bytes) >= 1
     /\ bytes[1].tag = "SEQUENCE"
     /\ Len(bytes[1].items) \in {1, 2}
     /\ bytes[1].items[1].tag = "OID"
    THEN [aid |-> [algorithm |-> bytes[1].items[1].oid,
                   parameters |-> IF Len(bytes[1].items) = 2
                                    THEN bytes[1].items[2] ELSE NoParams],
          rest |-> Tail(bytes)]
    ELSE NoParse

\* x509_parser SubjectPublicKeyInfo::from_der
X509_SubjectPublicKeyInfo_from_der(bytes) ==
  IF /\ Len(bytes) >= 1
     /\ bytes[1].tag = "SEQUENCE"
     /\ Len(bytes[1].items) = 2
     /\ AlgorithmIdentifier_from_der(<<bytes[1].items[1]>>) # NoParse
     /\ bytes[1].items[2].tag = "BIT STRING"
    THEN [spki |-> [algorithm |-> AlgorithmIdentifier_from_der(<<bytes[1].items[1]>>).aid,
                    subject_public_key |-> bytes[1].items[2].bytes],
          rem |-> Tail(bytes)]
    ELSE NoParse

\* The predicate of `find`: does the handle's own re-encoded AlgorithmIdentifier
\* decode, with nothing left over, to the decoded one?
alg_matches(alg, decoded) ==
  LET bytes == << write_oids_sign_alg(alg) >>
      parsed == AlgorithmIdentifier_from_der(bytes)
  IN IF parsed = NoParse THEN FALSE
     ELSE IF parsed.rest # <<>> THEN FALSE
     ELSE parsed.aid = decoded

NoAlg == "none"

RECURSIVE find_from(_, _, _)
find_from(algs, i, decoded) ==
  IF i > Len(algs) THEN NoAlg
  ELSE IF alg_matches(algs[i], decoded) THEN algs[i]
  ELSE find_from(algs, i + 1, decoded)

RECURSIVE rfind_from(_, _, _)
rfind_from(algs, i, decoded) ==
  IF i < 1 THEN NoAlg
  ELSE IF alg_matches(algs[i], decoded) THEN algs[i]
  ELSE rfind_from(algs, i - 1, decoded)

\* Mutant: the scan keeps the last matching handle.
find_alg_last(b, decoded) ==
  rfind_from(SignatureAlgorithm_iter(b), Len(SignatureAlgorithm_iter(b)), decoded)

\* `SignatureAlgorithm::iter().find(|alg| ..)`
find_alg(b, decoded) == find_from(SignatureAlgorithm_iter(b), 1, decoded)

SpkiOk(spki) == [status |-> "Ok", spki |-> spki]
SpkiErr(e) == [status |-> "Err", err |-> e]
SubjectPublicKeyInfo(alg, subject_public_key) ==
  [alg |-> alg, subject_public_key |-> subject_public_key]

\* SubjectPublicKeyInfo::from_der
SubjectPublicKeyInfo_from_der(b, spki_der) ==
  LET parsed == X509_SubjectPublicKeyInfo_from_der(spki_der) IN
  IF parsed = NoParse THEN SpkiErr("X509")
  ELSE IF parsed.rem # <<>> THEN SpkiErr("X509")
  ELSE LET alg == find_alg(b, parsed.spki.algorithm) IN
       IF alg = NoAlg
         THEN SpkiErr("UnsupportedSignatureAlgorithm")
         ELSE SpkiOk(SubjectPublicKeyInfo(alg, parsed.spki.subject_public_key))

\* The key pairs whose public key is exported: a well-formed PKCS#8 key of
\* each algorithm of the build, parsed with that algorithm.
WellFormedDer(b, alg, seed) ==
  IF sign_alg(alg).family = "Rsa"
    THEN Der("Pkcs8", {RsaKeyPair_from_pkcs8}, seed, 2048)
    ELSE generate_pkcs8(b, sign_alg(alg).param, seed)

SampleKeys(b) ==
  {from_pkcs8_der_and_sign_algo(b, WellFormedDer(b, alg, seed), alg).kp :
     alg \in Handles(b), seed \in 1..MaxSeed}

\* The SubjectPublicKeyInfo byte strings handed in from outside: well-formed
\* ones with known and unknown AlgorithmIdentifiers, with and without trailing
\* bytes, and malformed ones.
ForeignAlgIds ==
  {DerSeq(<<DerOid("1.2.840.10040.4.1")>>),
   DerSeq(<<DerOid(OID_RSA_ENCRYPTION)>>),
   DerSeq(<<DerOid(OID_EC_PUBLIC_KEY), DerOid("1.3.132.0.10")>>),
   DerSeq(<<DerOid(OID_ED25519), DerNull>>)}

ForeignSpkiDers(b) ==
  LET pk == [type |-> "RSA", seed |-> 1]
      aids == {write_oids_sign_alg(a) : a \in Handles(b)} \cup ForeignAlgIds
      good == {DerSeq(<<aid, DerBitString(pk, 0)>>) : aid \in aids}
      bad == {DerJunk, DerSeq(<<>>), DerSeq(<<DerNull, DerBitString(pk, 0)>>),
              DerSeq(<<write_oids_sign_alg(PKCS_ED25519), DerNull>>)}
  IN {<<v>> : v \in good \cup bad} \cup {<<v, DerJunk>> : v \in good} \cup {<<>>}

SpkiInit ==
  /\ backend \in Backends
  /\ input = NoInput
  /\ autoRes = NoCall
  /\ explRes = NoCall
  /\ genRes = NoCall
  /\ spkiKey = NoCall
  /\ spkiDer = <<>>
  /\ spkiRes = NoCall
  /\ signRes = NoCall
  /\ sharedKey = NoCall
  /\ constructed = NoCall
  /\ threads = [t \in Threads |-> Idle]

\* A key pair exports its public key.
CallSubjectPublicKeyInfo ==
  /\ \E kp \in SampleKeys(backend) :
       /\ spkiKey' = kp
       /\ spkiDer' = subject_public_key_info(kp)
  /\ spkiRes' = NoCall
  /\ UNCHANGED <<backend, keyVars, signVars, concVars>>

\* A SubjectPublicKeyInfo arrives from outside.
ChooseSpkiDer ==
  /\ \E bytes \in ForeignSpkiDers(backend) : spkiDer' = bytes
  /\ spkiKey' = NoCall
  /\ spkiRes' = NoCall
  /\ UNCHANGED <<backend, keyVars, signVars, concVars>>

CallSpkiFromDer ==
  /\ spkiRes' = SubjectPublicKeyInfo_from_der(backend, spkiDer)
  /\ UNCHANGED <<backend, keyVars, spkiKey, spkiDer, signVars, concVars>>

SpkiNext ==
  \/ CallSubjectPublicKeyInfo
  \/ ChooseSpkiDer
  \/ CallSpkiFromDer

SpecSpki == SpkiInit /\ [][SpkiNext]_vars

\* ================================================================ signing
\* A signature: who made it, over which bytes, with which scheme and
\* randomness, and how many bytes long it is.
Signature(kp, scheme, msg, rnd, len) ==
  [by |-> kp.kind.pub, scheme |-> scheme, over |-> msg, rnd |-> rnd, len |-> len]

SignOk(sig) == [status |-> "Ok", sig |-> sig]
SignErr(e) == [status |-> "Err", err |-> e]

\* The length of an ECDSA signature in the ASN.1 signing convention: two
\* integers of the curve's size, each with an optional leading zero.
EcdsaSigLen(curve, rnd) ==
  (CASE curve = ECDSA_P256 -> 70 [] curve = ECDSA_P384 -> 102 [] curve = ECDSA_P521 -> 137)
  + (rnd % 3)

\* Mutant: the RSA signature buffer has the length of a 2048-bit modulus.
sign_rsa_fixed_buffer(kp, msg, rnd, backendOk) ==
  CASE kp.kind.variant = "Ec" ->
         IF backendOk
           THEN SignOk(Signature(kp, kp.kind.param, msg, rnd, EcdsaSigLen(kp.kind.param, rnd)))
           ELSE SignErr(Unspecified_err)
    [] kp.kind.variant = "Ed" ->
         SignOk(Signature(kp, kp.kind.param, msg, 0, 64))
    [] kp.kind.variant = "Rsa" ->
         IF backendOk
           THEN SignOk(Signature(kp, kp.kind.param, msg, rnd, 256))
           ELSE SignErr(Unspecified_err)

\* impl SigningKey for KeyPair :: sign.  rnd is what the SystemRandom created
\* by the call yields; backendOk tells whether the backend signs.
sign(kp, msg, rnd, backendOk) ==
  CASE kp.kind.variant = "Ec" ->
         IF backendOk
           THEN SignOk(Signature(kp, kp.kind.param, msg, rnd, EcdsaSigLen(kp.kind.param, rnd)))
           ELSE SignErr(Unspecified_err)
    [] kp.kind.variant = "Ed" ->
         SignOk(Signature(kp, kp.kind.param, msg, 0, 64))
    [] kp.kind.variant = "Rsa" ->
         IF backendOk
           THEN SignOk(Signature(kp, kp.kind.param, msg, rnd,
                                 rsa_key_pair_public_modulus_len(kp.kind)))
           ELSE SignErr(Unspecified_err)

\* The payload-writing procedure f: the DER values it appends, or its error.
PayloadOk(items) == [status |-> "Ok", items |-> items]
PayloadErr(e) == [status |-> "Err", err |-> e]

SignDerOk(out, log) == [status |-> "Ok", out |-> out, log |-> log]
SignDerErr(e, log) == [status |-> "Err", err |-> e, log |-> log]

CalledF == [call |-> "f"]
CalledSign(msg, ret) == [call |-> "sign", msg |-> msg, ret |-> ret]

\* Mutant: a failed key.sign is tried once more.
sign_der_retries_sign(key, f, rnd, backendOk) ==
  IF f.status = "Err"
    THEN SignDerErr(f.err, <<CalledF>>)
    ELSE LET data == << DerSeq(f.items) >>
             ret1 == sign(key, data, rnd, backendOk)
             ret == IF ret1.status = "Err" THEN sign(key, data, rnd, TRUE) ELSE ret1
             log == IF ret1.status = "Err"
                      THEN <<CalledF, CalledSign(data, ret1), CalledSign(data, ret)>>
                      ELSE <<CalledF, CalledSign(data, ret)>>
         IN IF ret.status = "Err"
              THEN SignDerErr(ret.err, log)
              ELSE SignDerOk(<< DerSeq(data \o << write_alg_ident(algorithm(key)),
                                                 write_bitvec_bytes(ret.sig, ret.sig.len,
                                                                    ret.sig.len * 8) >>) >>,
                             log)

\* Mutant: the payload is signed without the SEQUENCE that wraps it in the output.
sign_der_signs_bare_payload(key, f, rnd, backendOk) ==
  IF f.status = "Err"
    THEN SignDerErr(f.err, <<CalledF>>)
    ELSE LET data == << DerSeq(f.items) >>
             ret == sign(key, f.items, rnd, backendOk)
             log == <<CalledF, CalledSign(f.items, ret)>>
         IN IF ret.status = "Err"
              THEN SignDerErr(ret.err, log)
              ELSE SignDerOk(<< DerSeq(data \o << write_alg_ident(algorithm(key)),
                                                 write_bitvec_bytes(ret.sig, ret.sig.len,
                                                                    ret.sig.len * 8) >>) >>,
                             log)

\* sign_der(key, f): data is the DER of SEQUENCE { f's payload }; it is spliced
\* into the outer SEQUENCE, followed by the signature AlgorithmIdentifier and
\* the BIT STRING of key.sign(&data).
sign_der(key, f, rnd, backendOk) ==
  IF f.status = "Err"
    THEN SignDerErr(f.err, <<CalledF>>)
    ELSE LET data == << DerSeq(f.items) >>
             ret == sign(key, data, rnd, backendOk)
             log == <<CalledF, CalledSign(data, ret)>>
         IN IF ret.status = "Err"
              THEN SignDerErr(ret.err, log)
              ELSE SignDerOk(<< DerSeq(data \o << write_alg_ident(algorithm(key)),
                                                 write_bitvec_bytes(ret.sig, ret.sig.len,
                                                                    ret.sig.len * 8) >>) >>,
                             log)

\* The payloads a document builder writes: up to MaxPayload DER values.
MaxPayload == 2
MaxRnd == 2
PayloadValues == {DerNull, DerOid("2.5.4.3")}

RECURSIVE SeqsUpTo(_, _)
SeqsUpTo(S, n) ==
  IF n = 0 THEN {<<>>}
  ELSE SeqsUpTo(S, n - 1) \cup {Append(q, v) : q \in SeqsUpTo(S, n - 1), v \in S}

Payloads ==
  {PayloadOk(items) : items \in SeqsUpTo(PayloadValues, MaxPayload)}
  \cup {PayloadErr("Time"), PayloadErr("UnsupportedInCsr")}

SignInit ==
  /\ backend \in Backends
  /\ input = NoInput
  /\ autoRes = NoCall
  /\ explRes = NoCall
  /\ genRes = NoCall
  /\ spkiKey = NoCall
  /\ spkiDer = <<>>
  /\ spkiRes = NoCall
  /\ signRes = NoCall
  /\ sharedKey = NoCall
  /\ constructed = NoCall
  /\ threads = [t \in Threads |-> Idle]

CallSignDer ==
  /\ \E key \in SampleKeys(backend), f \in Payloads, rnd \in 0..MaxRnd, backendOk \in BOOLEAN :
       signRes' = [key |-> key, f |-> f] @@ sign_der(key, f, rnd, backendOk)
  /\ UNCHANGED <<backend, keyVars, spkiVars, concVars>>

SignNext == CallSignDer

SpecSign == SignInit /\ [][SignNext]_vars

\* ======================================================= shared KeyPair
is_compatible(kp, signature_algorithm) == kp.alg = signature_algorithm
compatible_algs(kp) == <<kp.alg>>

\* The methods that take &self and return a value in one step.
ReadOps ==
  {"public_key_raw", "subject_public_key_info", "serialize_der", "algorithm",
   "compatible_algs", "is_compatible"}

\* The argument of a call: a handle for is_compatible, nothing for the others.
NoArg == "-"
ReadArgs == {NoArg, PKCS_ED25519, PKCS_RSA_SHA256}

read(kp, op, arg) ==
  CASE op = "public_key_raw" -> public_key_raw(kp)
    [] op = "subject_public_key_info" -> subject_public_key_info(kp)
    [] op = "serialize_der" -> serialize_der(kp)
    [] op = "algorithm" -> algorithm(kp)
    [] op = "compatible_algs" -> compatible_algs(kp)
    [] op = "is_compatible" -> is_compatible(kp, arg)

\* SystemRandom::new() in the call of caller t.
SystemRandom_new(t) == [owner |-> t]
NoRandom == [owner |-> 0]

\* Mutant: sign keeps the randomness source it creates in the key and reuses
\* the one it finds there.
sign_enter_keeps_rng_in_key(kp, t) ==
  IF kp.kind.variant = "Ed"
    THEN [self |-> kp, system_random |-> NoRandom]
    ELSE IF "rng" \in DOMAIN kp.kind
           THEN [self |-> kp, system_random |-> kp.kind.rng]
           ELSE [self |-> [kp EXCEPT !.kind = [rng |-> SystemRandom_new(t)] @@ kp.kind],
                 system_random |-> SystemRandom_new(t)]

\* sign, up to the backend call: `match &self.kind`, and in the Ec and Rsa arms
\* `let system_random = SystemRandom::new()`.  self is borrowed immutably.
sign_enter(kp, t) ==
  IF kp.kind.variant = "Ed"
    THEN [self |-> kp, system_random |-> NoRandom]
    ELSE [self |-> kp, system_random |-> SystemRandom_new(t)]

\* The messages callers sign.
Messages == {<< DerNull >>, << DerOid("2.5.4.3") >>}

\* RSA keys of every key size.
RsaSampleKeys(b) ==
  {from_pkcs8_der_and_sign_algo(b, Der("Pkcs8", {RsaKeyPair_from_pkcs8}, 1, bits), alg).kp :
     alg \in {PKCS_RSA_SHA256, PKCS_RSA_PSS_SHA256}, bits \in RsaKeySizes}

\* The keys that are shared: one of every algorithm, and RSA keys of every size.
SharedKeys(b) == {kp \in SampleKeys(b) : kp.kind.pub.seed = 1} \cup RsaSampleKeys(b)

ConcInit ==
  /\ backend \in Backends
  /\ input = NoInput
  /\ autoRes = NoCall
  /\ explRes = NoCall
  /\ genRes = NoCall
  /\ spkiKey = NoCall
  /\ spkiDer = <<>>
  /\ spkiRes = NoCall
  /\ signRes = NoCall
  /\ sharedKey = NoCall
  /\ constructed = NoCall
  /\ threads = [t \in Threads |-> Idle]

\* A constructor returns the KeyPair; every caller gets a reference to it.
Construct ==
  /\ sharedKey = NoCall
  /\ \E kp \in SharedKeys(backend) :
       /\ sharedKey' = kp
       /\ constructed' = kp
  /\ UNCHANGED <<backend, keyVars, spkiVars, signVars, threads>>

\* A caller that is not inside sign calls one of the read-only methods.
CallRead ==
  /\ sharedKey # NoCall
  /\ \E t \in Threads, op \in ReadOps, arg \in ReadArgs :
       /\ (arg = NoArg) = (op # "is_compatible")
       /\ threads[t].pc # "sign"
       /\ threads' = [threads EXCEPT ![t] = Returned(op, arg, read(sharedKey, op, arg))]
  /\ UNCHANGED <<backend, keyVars, spkiVars, signVars, sharedKey, constructed>>

\* A caller enters sign.
SignEnter ==
  /\ sharedKey # NoCall
  /\ \E t \in Threads, msg \in Messages :
       /\ threads[t].pc # "sign"
       /\ sharedKey' = sign_enter(sharedKey, t).self
       /\ threads' = [threads EXCEPT ![t] = InSign(msg, sign_enter(sharedKey, t).system_random)]
  /\ UNCHANGED <<backend, keyVars, spkiVars, signVars, constructed>>

\* The backend call of a caller inside sign returns and sign returns.
SignReturn ==
  /\ \E t \in Threads, rnd \in 0..MaxRnd, backendOk \in BOOLEAN :
       /\ threads[t].pc = "sign"
       /\ threads' = [threads EXCEPT ![t] =
                        [system_random |-> threads[t].system_random]
                        @@ Returned("sign", threads[t].msg,
                                    sign(sharedKey, threads[t].msg, rnd, backendOk))]
  /\ UNCHANGED <<backend, keyVars, spkiVars, signVars, sharedKey, constructed>>

ConcNext ==
  \/ Construct
  \/ CallRead
  \/ SignEnter
  \/ SignReturn

SpecConc == ConcInit /\ [][ConcNext]_vars

\* ====================================================== checked properties
Range(f) == {f[i] : i \in DOMAIN f}

\* The fixed priority order of the auto-detecting parse, as the specification states it.
PriorityOrder(b) ==
  IF b = "aws_lc_rs"
    THEN <<PKCS_ED25519, PKCS_ECDSA_P256_SHA256, PKCS_ECDSA_P384_SHA384,
           PKCS_ECDSA_P521_SHA512, PKCS_RSA_SHA256>>
    ELSE <<PKCS_ED25519, PKCS_ECDSA_P256_SHA256, PKCS_ECDSA_P384_SHA384, PKCS_RSA_SHA256>>

\* The constructor the auto-detecting parse uses for the candidate of an algorithm.
CandidateCtor(b, key, alg) ==
  (CHOOSE c \in Range(auto_candidates(b, key)) : c.alg = alg).t.ctor

\* The PrivateKeyDer the last auto-detecting call worked on.
AutoKey ==
  IF autoRes.entry = "try_from" THEN input ELSE PrivateKeyDer(input.der.class, input.der)

AutoCtorAt(i) == CandidateCtor(backend, AutoKey, PriorityOrder(backend)[i])

AllCandidates == [i \in 1..Len(PriorityOrder(backend)) |-> AutoCtorAt(i)]

\* C1: a successful auto-detecting parse returns the key of the first candidate,
\* in the order Ed25519, P-256, P-384, P-521 (aws_lc_rs only), RSA, that accepts
\* the input; no candidate after it is attempted; of two accepting candidates the
\* earlier one is returned; an RSA key gets PKCS_RSA_SHA256 with PKCS1-SHA256.
C1_FirstAcceptingCandidateWins ==
  autoRes.status = "Ok" =>
    LET order == PriorityOrder(backend)
        kp == autoRes.kp
    IN /\ \E k \in 1..Len(order) :
            /\ algorithm(kp) = order[k]
            /\ Accepts(AutoCtorAt(k), input.der)
            /\ \A i \in 1..(k - 1) : ~Accepts(AutoCtorAt(i), input.der)
            /\ autoRes.tried = [i \in 1..k |-> AutoCtorAt(i)]
       /\ \A i, j \in 1..Len(order) :
            (i < j /\ Accepts(AutoCtorAt(i), input.der) /\ Accepts(AutoCtorAt(j), input.der))
              => algorithm(kp) # order[j]
       /\ kp.kind.variant = "Rsa"
            => algorithm(kp) = PKCS_RSA_SHA256 /\ kp.kind.param = "RSA_PKCS1_SHA256"

\* Two candidates accept the input and the auto-detecting parse returned a key.
C1_Witness ==
  /\ autoRes.status = "Ok"
  /\ \E i, j \in 1..Len(PriorityOrder(backend)) :
       /\ i < j
       /\ Accepts(AutoCtorAt(i), input.der)
       /\ Accepts(AutoCtorAt(j), input.der)
       /\ algorithm(autoRes.kp) = PriorityOrder(backend)[i]

TryFromEntries == {"try_from", "try_from_bytes"}

\* C2 as stated: whenever the auto-detecting parse fails, the error is
\* CouldNotParseKeyPair and every candidate of the list was attempted and rejected.
C2_ErrOnlyAfterEveryCandidate ==
  (autoRes.status = "Err" /\ autoRes.entry \in TryFromEntries) =>
    /\ autoRes.err = "CouldNotParseKeyPair"
    /\ autoRes.tried = AllCandidates
    /\ \A i \in DOMAIN AllCandidates : ~Accepts(AllCandidates[i], input.der)

\* C2 amended: whenever the auto-detecting parse fails, the error is
\* CouldNotParseKeyPair, and either every candidate was attempted and rejected,
\* or no candidate was attempted because the bytes are in no container
\* pki_types recognises or (ring) the container is not PKCS#8.
C2_ErrAfterEveryCandidateOrContainer ==
  (autoRes.status = "Err" /\ autoRes.entry \in TryFromEntries) =>
    /\ autoRes.err = "CouldNotParseKeyPair"
    /\ \/ /\ autoRes.tried = AllCandidates
          /\ \A i \in DOMAIN AllCandidates : ~Accepts(AllCandidates[i], input.der)
       \/ /\ autoRes.tried = <<>>
          /\ \/ autoRes.entry = "try_from_bytes" /\ input.der.class = "Invalid"
             \/ backend = "ring" /\ AutoKey.tag # "Pkcs8"

\* The auto-detecting parse failed after attempting and rejecting every candidate.
C2_Witness ==
  /\ autoRes.status = "Err"
  /\ autoRes.entry \in TryFromEntries
  /\ autoRes.tried = AllCandidates
  /\ input.der.accepts # {}

\* The algorithms the explicit dispatch lists, and what the specification says
\* each is built with.
Recognized(b, alg) ==
  alg \in {PKCS_ED25519, PKCS_ECDSA_P256_SHA256, PKCS_ECDSA_P384_SHA384,
           PKCS_RSA_SHA256, PKCS_RSA_SHA384, PKCS_RSA_SHA512, PKCS_RSA_PSS_SHA256}
           \cup (IF b = "aws_lc_rs" THEN {PKCS_ECDSA_P521_SHA512} ELSE {})

FamilyVariant(alg) ==
  IF alg = PKCS_ED25519 THEN "Ed" ELSE IF alg \in EcAlgs THEN "Ec" ELSE "Rsa"

DeclaredParam(alg) ==
  CASE alg = PKCS_ED25519 -> "ED25519"
    [] alg = PKCS_ECDSA_P256_SHA256 -> ECDSA_P256
    [] alg = PKCS_ECDSA_P384_SHA384 -> ECDSA_P384
    [] alg = PKCS_ECDSA_P521_SHA512 -> ECDSA_P521
    [] alg = PKCS_RSA_SHA256 -> "RSA_PKCS1_SHA256"
    [] alg = PKCS_RSA_SHA384 -> "RSA_PKCS1_SHA384"
    [] alg = PKCS_RSA_SHA512 -> "RSA_PKCS1_SHA512"
    [] alg = PKCS_RSA_PSS_SHA256 -> "RSA_PSS_SHA256"

FamilyCtors(alg) ==
  CASE FamilyVariant(alg) = "Ed" -> {Ed25519_from_pkcs8_maybe_unchecked}
    [] FamilyVariant(alg) = "Ec" ->
         {ecdsa_from_pkcs8(DeclaredParam(alg)), ecdsa_from_private_key_der(DeclaredParam(alg))}
    [] FamilyVariant(alg) = "Rsa" -> {RsaKeyPair_from_pkcs8, RsaKeyPair_from_der}

\* C3: an explicit-algorithm parse with a recognized algorithm A calls at most
\* one constructor, that of A's family with A's curve; it fails, or returns a
\* KeyPair with algorithm A, A's variant and A's curve or RSA padding.
C3_ExplicitDispatchExact ==
  (explRes.status # "NoCall" /\ Recognized(backend, explRes.alg)) =>
    /\ explRes.status \in {"Ok", "Err"}
    /\ Len(explRes.tried) <= 1
    /\ Range(explRes.tried) \subseteq FamilyCtors(explRes.alg)
    /\ explRes.status = "Ok" =>
         /\ algorithm(explRes.kp) = explRes.alg
         /\ explRes.kp.kind.variant = FamilyVariant(explRes.alg)
         /\ explRes.kp.kind.param = DeclaredParam(explRes.alg)
         /\ explRes.tried = <<explRes.tried[1]>>
         /\ explRes.kp.kind.pub = PublicKey(explRes.tried[1], input.der)

\* An explicit parse succeeded on bytes that a constructor of another family accepts too.
C3_Witness ==
  /\ explRes.status = "Ok"
  /\ explRes.alg = PKCS_RSA_SHA384
  /\ input.der.accepts \ FamilyCtors(explRes.alg) # {}

Results == {autoRes, explRes, genRes}

\* C4: every KeyPair a constructor returned has the variant of its algorithm's
\* family, and an Rsa variant stores the padding of its algorithm.
C4_FamilyMatchesVariant ==
  \A r \in Results :
    r.status = "Ok" =>
      /\ r.kp.kind.variant = FamilyVariant(algorithm(r.kp))
      /\ r.kp.kind.variant = "Rsa" => r.kp.kind.param = DeclaredParam(algorithm(r.kp))
      /\ r.kp.kind.variant = "Ec" => r.kp.kind.param = DeclaredParam(algorithm(r.kp))

\* A generated RSA key was exported and parsed again, explicitly and automatically.
C4_Witness ==
  /\ genRes.status = "Ok" /\ genRes.entry = "generate_rsa_for"
  /\ algorithm(genRes.kp) = PKCS_RSA_PSS_SHA256
  /\ explRes.status = "Ok" /\ algorithm(explRes.kp) = PKCS_RSA_SHA512
  /\ autoRes.status = "Ok"

ExplicitDerEntries == {"from_pkcs8_der_and_sign_algo", "from_der_and_sign_algo"}

\* C5: a generated key, exported with serialize_der and parsed with the explicit
\* parse for its own algorithm, parses, and the parsed key has the original's
\* raw public key and algorithm.
C5_PrivateKeyRoundTrip ==
  (/\ genRes.status = "Ok"
   /\ explRes.status # "NoCall"
   /\ explRes.entry \in ExplicitDerEntries
   /\ explRes.alg = algorithm(genRes.kp)) =>
    /\ explRes.status = "Ok"
    /\ public_key_raw(explRes.kp) = public_key_raw(genRes.kp)
    /\ algorithm(explRes.kp) = algorithm(genRes.kp)

\* A generated P-384 key went through export and explicit parse.
C5_Witness ==
  /\ genRes.status = "Ok"
  /\ algorithm(genRes.kp) = PKCS_ECDSA_P384_SHA384
  /\ explRes.status = "Ok"
  /\ explRes.entry = "from_pkcs8_der_and_sign_algo"
  /\ explRes.alg = PKCS_ECDSA_P384_SHA384

\* Both parse paths were applied to the same PrivateKeyDer and the explicit one succeeded.
BothPaths ==
  /\ explRes.status = "Ok"
  /\ explRes.entry = "from_der_and_sign_algo"
  /\ autoRes.status # "NoCall"
  /\ autoRes.entry = "try_from"

\* C6 as stated: when the explicit parse of the bytes succeeds, the auto-detecting
\* parse of the same bytes succeeds and both keys have the same raw public key.
C6_CrossPathSameKey ==
  BothPaths =>
    /\ autoRes.status = "Ok"
    /\ public_key_raw(autoRes.kp) = public_key_raw(explRes.kp)

\* The position of the candidate of an algorithm's family in the priority order.
FamilyCandidate(alg) == IF alg \in RsaAlgs THEN PKCS_RSA_SHA256 ELSE alg
PositionOf(alg) ==
  CHOOSE k \in 1..Len(PriorityOrder(backend)) :
    PriorityOrder(backend)[k] = FamilyCandidate(alg)

\* C6 amended: when the explicit parse of the bytes succeeds under A, the
\* auto-detecting parse of the same bytes succeeds with A's family candidate or
\* an earlier one, and both keys have the same raw public key whenever no
\* candidate earlier than A's accepts the bytes.
C6_CrossPathSameKeyUnlessEarlier ==
  BothPaths =>
    /\ autoRes.status = "Ok"
    /\ PositionOf(algorithm(autoRes.kp)) <= PositionOf(explRes.alg)
    /\ (\A i \in 1..(PositionOf(explRes.alg) - 1) : ~Accepts(AutoCtorAt(i), input.der))
         => /\ public_key_raw(autoRes.kp) = public_key_raw(explRes.kp)
            /\ algorithm(autoRes.kp) = FamilyCandidate(explRes.alg)

\* Both paths parsed the same SEC1 bytes and agree on the key.
C6_Witness ==
  /\ BothPaths
  /\ input.tag = "Sec1"
  /\ explRes.alg = PKCS_ECDSA_P384_SHA384
  /\ autoRes.status = "Ok"
  /\ public_key_raw(autoRes.kp) = public_key_raw(explRes.kp)

\* No backend constructor accepts the input: truncated or garbage bytes.
Garbage == input # NoInput /\ input.der.accepts = {}

\* C10 as stated: on garbage bytes every parse entry point returns
\* Err(CouldNotParseKeyPair).
C10_GarbageIsCouldNotParse ==
  Garbage =>
    /\ (autoRes.status # "NoCall" /\ autoRes.entry \in TryFromEntries)
         => autoRes.status = "Err" /\ autoRes.err = "CouldNotParseKeyPair"
    /\ (/\ explRes.status # "NoCall"
        /\ explRes.entry \in ExplicitDerEntries
        /\ Recognized(backend, explRes.alg))
         => explRes.status = "Err" /\ explRes.err = "CouldNotParseKeyPair"

\* C10 amended: on garbage bytes no parse entry point panics or returns a key;
\* the auto-detecting parse returns Err(CouldNotParseKeyPair), and the explicit
\* parse returns the wrapped backend rejection Err(RingKeyRejected), except that
\* from_der_and_sign_algo on ring returns Err(CouldNotParseKeyPair) for a
\* container that is not PKCS#8.
C10_GarbageIsRejected ==
  Garbage =>
    /\ (autoRes.status # "NoCall" /\ autoRes.entry \in TryFromEntries)
         => autoRes.status = "Err" /\ autoRes.err = "CouldNotParseKeyPair"
    /\ (/\ explRes.status # "NoCall"
        /\ explRes.entry \in ExplicitDerEntries
        /\ Recognized(backend, explRes.alg))
         => /\ explRes.status = "Err"
            /\ explRes.err =
                 IF /\ explRes.entry = "from_der_and_sign_algo"
                    /\ backend = "ring"
                    /\ input.tag # "Pkcs8"
                   THEN "CouldNotParseKeyPair"
                   ELSE "RingKeyRejected"

\* Garbage bytes went through the explicit parse of an RSA algorithm and the
\* auto-detecting parse.
C10_Witness ==
  /\ Garbage
  /\ explRes.status = "Err"
  /\ explRes.entry = "from_pkcs8_der_and_sign_algo"
  /\ explRes.alg = PKCS_RSA_PSS_SHA256
  /\ autoRes.status = "Err"
  /\ autoRes.entry = "try_from"

\* The last from_der call decoded the key's own exported SubjectPublicKeyInfo.
OwnSpkiDecoded == spkiKey # NoCall /\ spkiRes # NoCall

ValidSpki ==
  /\ spkiRes # NoCall
  /\ X509_SubjectPublicKeyInfo_from_der(spkiDer) # NoParse
  /\ X509_SubjectPublicKeyInfo_from_der(spkiDer).rem = <<>>

\* The positions of the catalogue whose handle re-encodes to the decoded AlgorithmIdentifier.
Matching ==
  {i \in 1..Len(SignatureAlgorithm_iter(backend)) :
     alg_matches(SignatureAlgorithm_iter(backend)[i],
                 X509_SubjectPublicKeyInfo_from_der(spkiDer).spki.algorithm)}

\* C8: from_der on a well-formed SubjectPublicKeyInfo without trailing bytes
\* returns the first handle of the catalogue, in enumeration order, whose
\* re-encoded AlgorithmIdentifier equals the decoded one, and
\* Err(UnsupportedSignatureAlgorithm) when there is none.
C8_FirstMatchingHandleOrUnsupported ==
  ValidSpki =>
    IF Matching = {}
      THEN spkiRes = SpkiErr("UnsupportedSignatureAlgorithm")
      ELSE /\ spkiRes.status = "Ok"
           /\ \E k \in Matching :
                /\ \A i \in Matching : k <= i
                /\ spkiRes.spki.alg = SignatureAlgorithm_iter(backend)[k]
           /\ spkiRes.spki.subject_public_key =
                X509_SubjectPublicKeyInfo_from_der(spkiDer).spki.subject_public_key

\* A foreign SubjectPublicKeyInfo that several handles match was decoded.
C8_Witness ==
  /\ ValidSpki
  /\ spkiKey = NoCall
  /\ Cardinality(Matching) >= 2
  /\ spkiRes.status = "Ok"

\* A foreign SubjectPublicKeyInfo with an unknown AlgorithmIdentifier was decoded.
C8_WitnessUnsupported ==
  /\ ValidSpki
  /\ Matching = {}
  /\ spkiRes = SpkiErr("UnsupportedSignatureAlgorithm")

\* C9: in a successful sign_der call the payload writer ran once, before sign;
\* sign ran once, on exactly the bytes that are the first element of the
\* output; the output is one SEQUENCE of three elements: the SEQUENCE of the
\* payload, the AlgorithmIdentifier of the key's algorithm, and a BIT STRING
\* with no unused bits holding the bytes sign returned.
C9_SignedBytesAreEmbeddedBytes ==
  signRes.status = "Ok" =>
    /\ Len(signRes.out) = 1
    /\ signRes.out[1].tag = "SEQUENCE"
    /\ Len(signRes.out[1].items) = 3
    /\ Len(signRes.log) = 2
    /\ signRes.log[1] = CalledF
    /\ signRes.log[2].call = "sign"
    /\ signRes.log[2].msg = << signRes.out[1].items[1] >>
    /\ signRes.out[1].items[1] = DerSeq(signRes.f.items)
    /\ signRes.out[1].items[2] = write_alg_ident(algorithm(signRes.key))
    /\ signRes.out[1].items[3] = DerBitString(signRes.log[2].ret.sig, 0)
    /\ signRes.log[2].ret.sig.over = << signRes.out[1].items[1] >>

\* sign_der signed a payload of two values with an ECDSA key.
C9_Witness ==
  /\ signRes.status = "Ok"
  /\ signRes.key.kind.variant = "Ec"
  /\ Len(signRes.f.items) = 2

GenerateForEntries == {"generate", "generate_for"}

\* The parts of C11 that do not concern the key-size parameter: RSA keys are
\* generated on aws_lc_rs only; generate_for with an RSA algorithm on ring and
\* generate_rsa_for with a non-RSA algorithm return
\* Err(KeyGenerationUnavailable); generate_for with an ECDSA or Ed25519
\* algorithm returns a key of that algorithm unless the backend fails.
GenerationAvailability ==
  /\ (genRes.status = "Ok" /\ genRes.kp.kind.variant = "Rsa") => backend = "aws_lc_rs"
  /\ (genRes.entry \in GenerateForEntries /\ genRes.alg \in RsaAlgs /\ backend = "ring")
       => genRes.status = "Err" /\ genRes.err = "KeyGenerationUnavailable"
  /\ (genRes.entry = "generate_rsa_for" /\ genRes.alg \notin RsaAlgs)
       => genRes.status = "Err" /\ genRes.err = "KeyGenerationUnavailable"
  /\ (genRes.entry \in GenerateForEntries /\ genRes.alg \notin RsaAlgs)
       => IF genRes.backendOk
            THEN /\ genRes.status = "Ok"
                 /\ algorithm(genRes.kp) = genRes.alg
                 /\ genRes.kp.kind.variant = FamilyVariant(genRes.alg)
            ELSE genRes.status = "Err" /\ genRes.err = Unspecified_err

\* C11 as stated: every generated RSA key comes from the call that takes an
\* explicit key size, generate_rsa_for, and has that size; RSA generation is
\* available on one backend only; generate_for with an RSA algorithm on ring and
\* generate_rsa_for with a non-RSA algorithm return
\* Err(KeyGenerationUnavailable); generate_for with an ECDSA or Ed25519
\* algorithm returns a key unless the backend fails.
C11_RsaGenerationNeedsKeySize ==
  genRes.status # "NoCall" =>
    /\ GenerationAvailability
    /\ (genRes.status = "Ok" /\ genRes.kp.kind.variant = "Rsa")
         => /\ genRes.entry = "generate_rsa_for"
            /\ genRes.kp.kind.bits = genRes.key_size

\* C11 amended: a generated RSA key comes from generate_rsa_for and has the
\* key size passed to it, or from generate_for with an RSA algorithm on
\* aws_lc_rs and has 2048 bits; the rest as stated.
C11_GenerationAvailability ==
  genRes.status # "NoCall" =>
    /\ GenerationAvailability
    /\ (genRes.status = "Ok" /\ genRes.kp.kind.variant = "Rsa")
         => \/ /\ genRes.entry = "generate_rsa_for"
               /\ genRes.kp.kind.bits = genRes.key_size
            \/ /\ genRes.entry = "generate_for"
               /\ backend = "aws_lc_rs"
               /\ genRes.kp.kind.bits = 2048
    /\ (genRes.entry = "generate_rsa_for" /\ genRes.alg \in RsaAlgs)
         => IF genRes.backendOk
              THEN genRes.status = "Ok" /\ algorithm(genRes.kp) = genRes.alg
              ELSE genRes.status = "Err" /\ genRes.err = Unspecified_err
    /\ (genRes.entry = "generate_for" /\ genRes.alg \in RsaAlgs /\ backend = "aws_lc_rs")
         => IF genRes.backendOk
              THEN genRes.status = "Ok" /\ algorithm(genRes.kp) = genRes.alg
              ELSE genRes.status = "Err" /\ genRes.err = Unspecified_err

\* generate_for was called with an RSA algorithm on the ring backend.
C11_Witness ==
  /\ backend = "ring"
  /\ genRes.status = "Err"
  /\ genRes.entry = "generate_for"
  /\ genRes.alg = PKCS_RSA_SHA384
  /\ genRes.err = "KeyGenerationUnavailable"

\* Bytes in PKCS#8 format: pki_types recognises a PKCS#8 container in them, or
\* a backend constructor that reads PKCS#8 only accepts them.
InPkcs8Format(der) ==
  \/ der.class = "Pkcs8"
  \/ \E c \in der.accepts :
       c.fn \in {"Ed25519KeyPair::from_pkcs8_maybe_unchecked", "Ed25519KeyPair::from_pkcs8",
                 "RsaKeyPair::from_pkcs8", "ecdsa_from_pkcs8"}

\* C12: every KeyPair a constructor returned exports, with serialize_der, bytes
\* in PKCS#8 format, and serialize_pem wraps those bytes under "PRIVATE KEY".
C12_ExportIsPkcs8 ==
  \A r \in Results :
    r.status = "Ok" =>
      /\ InPkcs8Format(serialize_der(r.kp))
      /\ serialize_pem(r.kp) = Pem("PRIVATE KEY", serialize_der(r.kp))

\* A key was parsed from a SEC1 container on aws_lc_rs, by both parse paths.
C12_Witness ==
  /\ backend = "aws_lc_rs"
  /\ input # NoInput
  /\ input.tag = "Sec1" /\ input.der.class = "Sec1"
  /\ autoRes.status = "Ok" /\ autoRes.entry = "try_from"
  /\ explRes.status = "Ok" /\ explRes.entry = "from_der_and_sign_algo"
  /\ serialize_der(autoRes.kp) = input.der
  /\ ~InPkcs8Format(serialize_der(autoRes.kp))
  /\ serialize_pem(explRes.kp).label = "PRIVATE KEY"

\* The callers that are back from a sign call on the shared key.
SignReturned == {t \in Threads : threads[t].pc = "returned" /\ threads[t].op = "sign"}

\* C13: a successful sign with an Rsa-variant key of 2048, 3072 or 4096 bits
\* returns, for every message, a signature whose length in bytes is the key's
\* modulus size divided by 8: 256, 384 or 512.
C13_RsaSignatureLength ==
  \A t \in SignReturned :
    (sharedKey.kind.variant = "Rsa" /\ threads[t].ret.status = "Ok") =>
      /\ sharedKey.kind.bits \in RsaKeySizes
      /\ threads[t].ret.sig.len * 8 = sharedKey.kind.bits
      /\ threads[t].ret.sig.len =
           (CASE sharedKey.kind.bits = 2048 -> 256
              [] sharedKey.kind.bits = 3072 -> 384
              [] sharedKey.kind.bits = 4096 -> 512)
      /\ threads[t].ret.sig.over = threads[t].arg

\* Two callers signed different messages with the same 4096-bit RSA key.
C13_Witness ==
  /\ sharedKey # NoCall
  /\ sharedKey.kind.variant = "Rsa"
  /\ sharedKey.kind.bits = 4096
  /\ \E t, u \in SignReturned :
       /\ threads[t].ret.status = "Ok"
       /\ threads[u].ret.status = "Ok"
       /\ threads[t].arg # threads[u].arg
       /\ threads[t].ret.sig.len = 512

\* C14: whatever the callers of a shared KeyPair have done, in whatever order,
\* the key's variant, algorithm handle and canonical DER buffer are those it
\* was constructed with; every value a read-only method returned is the value
\* the method returns on the key as constructed; and the randomness source of
\* every sign call was created by that call.
C14_SharedKeyImmutable ==
  sharedKey # NoCall =>
    /\ sharedKey.kind = constructed.kind
    /\ sharedKey.alg = constructed.alg
    /\ sharedKey.serialized_der = constructed.serialized_der
    /\ \A t \in Threads :
         /\ (threads[t].pc = "returned" /\ threads[t].op \in ReadOps)
              => threads[t].ret = read(constructed, threads[t].op, threads[t].arg)
         /\ (threads[t].pc = "sign" \/ t \in SignReturned)
              => threads[t].system_random =
                   IF constructed.kind.variant = "Ed" THEN NoRandom ELSE SystemRandom_new(t)
         /\ (t \in SignReturned /\ threads[t].ret.status = "Ok")
              => threads[t].ret.sig.by = public_key_raw(constructed)

\* One caller is inside sign while another has signed and a second sign call
\* of an ECDSA key is under way.
C14_Witness ==
  /\ sharedKey # NoCall
  /\ sharedKey.kind.variant = "Ec"
  /\ \E t, u \in Threads :
       /\ t # u
       /\ threads[t].pc = "sign"
       /\ u \in SignReturned
       /\ threads[u].ret.status = "Ok"

\* The last explicit-algorithm parse was given a handle its dispatch does not list.
UnlistedCall ==
  /\ explRes.status # "NoCall"
  /\ explRes.entry \in ExplicitDerEntries
  /\ ~Recognized(backend, explRes.alg)

\* C15 as stated: an explicit-algorithm parse given a handle its dispatch does
\* not list panics, on both entry points, for every input and container.
C15_UnlistedHandlePanics ==
  UnlistedCall => explRes.status = "Panic"

\* C15 amended: an explicit-algorithm parse given a handle its dispatch does
\* not list calls no constructor and panics, for every input, except that
\* from_der_and_sign_algo on ring, given a container that is not PKCS#8,
\* returns Err(CouldNotParseKeyPair).
C15_UnlistedHandlePanicsInDispatch ==
  UnlistedCall =>
    /\ explRes.tried = <<>>
    /\ IF /\ explRes.entry = "from_der_and_sign_algo"
          /\ backend = "ring"
          /\ input.tag # "Pkcs8"
         THEN explRes.status = "Err" /\ explRes.err = "CouldNotParseKeyPair"
         ELSE explRes.status = "Panic"

\* On ring the P-521 handle was passed with bytes that a constructor accepts.
C15_Witness ==
  /\ UnlistedCall
  /\ backend = "ring"
  /\ explRes.alg = PKCS_ECDSA_P521_SHA512
  /\ explRes.status = "Panic"
  /\ input.der.accepts # {}

\* The key.sign calls of the last sign_der call.
SignCalls == {i \in DOMAIN signRes.log : signRes.log[i].call = "sign"}

\* C16: when the payload writer fails, sign_der returns the writer's error and
\* key.sign is not called; when key.sign fails, sign_der returns the error of
\* key.sign; a failed sign_der returns no envelope; key.sign is called at most
\* once in a sign_der call, after the payload writer, which is called once.
C16_NoRetryNoPartialSuccess ==
  signRes.status # "NoCall" =>
    /\ Cardinality(SignCalls) <= 1
    /\ signRes.log[1] = CalledF
    /\ \A i \in DOMAIN signRes.log : signRes.log[i] = CalledF => i = 1
    /\ signRes.f.status = "Err" =>
         /\ signRes.status = "Err"
         /\ signRes.err = signRes.f.err
         /\ SignCalls = {}
    /\ (\E i \in SignCalls : signRes.log[i].ret.status = "Err") =>
         /\ signRes.status = "Err"
         /\ \A i \in SignCalls : signRes.err = signRes.log[i].ret.err
    /\ signRes.status = "Err" =>
         /\ "out" \notin DOMAIN signRes
         /\ \/ signRes.f.status = "Err"
            \/ \E i \in SignCalls : signRes.log[i].ret.status = "Err"
    /\ signRes.status = "Ok" =>
         /\ signRes.f.status = "Ok"
         /\ \E i \in SignCalls : signRes.log[i].ret.status = "Ok"

\* The payload was written and key.sign of an RSA key failed.
C16_Witness ==
  /\ signRes.status = "Err"
  /\ signRes.f.status = "Ok"
  /\ signRes.key.kind.variant = "Rsa"
  /\ Cardinality(SignCalls) = 1
  /\ signRes.err = Unspecified_err

====
